---- MODULE Spec2Model ----
(***************************************************************************)
(* Model of gen_benchmark_report.py: read benchmark.csv with a DictReader, *)
(* aggregate data[function][(selectors, facets)][implementation] = gas,    *)
(* render one Markdown table for facets() and one for facetAddresses(),    *)
(* and write the document to BENCHMARK_REPORT.md.                          *)
(*                                                                         *)
(* Text is a sequence of one-character strings, so that parsing (int),     *)
(* formatting (f"{val:,}", f"{selectors}/{facets}"), len() and the         *)
(* lexicographic sort of names are computed character by character.        *)
(* A rendered line is [kind, cells]: the cells are the strings the code    *)
(* joins with " | " (or "|"); the static text around them is given by the  *)
(* kind. The document is the sequence of the lines appended to md.         *)
(*                                                                         *)
(* Scope of the inputs: every data row has as many cells as the header     *)
(* (DictReader's restkey/restval are not exercised), and opening the       *)
(* output file succeeds.                                                   *)
(***************************************************************************)
EXTENDS Integers, Sequences, FiniteSets, TLC

VARIABLES pc, input, output, idx, data, implementations, md, err

vars == <<pc, input, output, idx, data, implementations, md, err>>

(* ---------------------------------------------------------------------- *)
(* Bounds                                                                  *)
(* ---------------------------------------------------------------------- *)
MaxRows == 2

(* ---------------------------------------------------------------------- *)
(* Text                                                                    *)
(* ---------------------------------------------------------------------- *)
Range(s) == {s[i] : i \in 1..Len(s)}

Min(S) == CHOOSE x \in S : \A y \in S : x <= y

DigitChars == <<"0", "1", "2", "3", "4", "5", "6", "7", "8", "9">>

IsDigit(c) == c \in Range(DigitChars)

DigitVal(c) == (CHOOSE i \in 1..10 : DigitChars[i] = c) - 1

\* The characters of the model in code point order (str comparison).
AsciiOrder ==
  <<" ", "(", ")", "+", ",", "-", ".", "/",
    "0", "1", "2", "3", "4", "5", "6", "7", "8", "9",
    "A", "B", "C", "F", "I", "S", "_",
    "a", "c", "d", "e", "f", "k", "l", "m", "n", "o", "p", "r", "s", "t",
    "u", "w", "x">>

Ord(c) == CHOOSE i \in 1..Len(AsciiOrder) : AsciiOrder[i] = c

\* a < b for Python str.
TextLess(a, b) ==
  \/ /\ Len(a) < Len(b)
     /\ a = SubSeq(b, 1, Len(a))
  \/ \E i \in 1..(IF Len(a) < Len(b) THEN Len(a) ELSE Len(b)) :
       /\ SubSeq(a, 1, i - 1) = SubSeq(b, 1, i - 1)
       /\ Ord(a[i]) < Ord(b[i])

\* (s1, f1) < (s2, f2) for Python tuples of int.
PairLess(a, b) == \/ a[1] < b[1]
                  \/ a[1] = b[1] /\ a[2] < b[2]

RECURSIVE LStrip(_)
LStrip(s) == IF s # <<>> /\ Head(s) = " " THEN LStrip(Tail(s)) ELSE s

RECURSIVE RStrip(_)
RStrip(s) == IF s # <<>> /\ s[Len(s)] = " "
             THEN RStrip(SubSeq(s, 1, Len(s) - 1)) ELSE s

Strip(s) == RStrip(LStrip(s))

\* Digits with single underscores between digits, as int() accepts them.
IsNumeral(s) ==
  /\ s # <<>>
  /\ \A i \in 1..Len(s) :
       \/ IsDigit(s[i])
       \/ /\ s[i] = "_"
          /\ 1 < i
          /\ i < Len(s)
          /\ IsDigit(s[i - 1])
          /\ IsDigit(s[i + 1])

RECURSIVE NumeralVal(_)
NumeralVal(s) ==
  IF s = <<>> THEN 0
  ELSE LET init == SubSeq(s, 1, Len(s) - 1)
           last == s[Len(s)]
       IN IF last = "_" THEN NumeralVal(init)
          ELSE 10 * NumeralVal(init) + DigitVal(last)

\* int(text): [ok |-> FALSE] stands for ValueError.
ParseInt(text) ==
  LET s    == Strip(text)
      sgn  == s # <<>> /\ Head(s) \in {"+", "-"}
      body == IF sgn THEN Tail(s) ELSE s
  IN IF IsNumeral(body)
     THEN [ok |-> TRUE,
           val |-> IF sgn /\ Head(s) = "-" THEN 0 - NumeralVal(body)
                   ELSE NumeralVal(body)]
     ELSE [ok |-> FALSE, val |-> 0]

RECURSIVE DigitsOf(_)
DigitsOf(n) == IF n < 10 THEN <<DigitChars[n + 1]>>
               ELSE DigitsOf(n \div 10) \o <<DigitChars[(n % 10) + 1]>>

\* str(n) for an int, as f"{selectors}" renders it.
IntToText(n) == IF n < 0 THEN <<"-">> \o DigitsOf(0 - n) ELSE DigitsOf(n)

RECURSIVE Group3(_)
Group3(d) == IF Len(d) <= 3 THEN d
             ELSE Group3(SubSeq(d, 1, Len(d) - 3)) \o <<",">>
                    \o SubSeq(d, Len(d) - 2, Len(d))

\* Mutant of FormatThousands: f"{val}", the separators forgotten.
FormatPlain(val) == IntToText(val)

\* f"{val:,}"
FormatThousands(val) ==
  IF val < 0 THEN <<"-">> \o Group3(DigitsOf(0 - val))
  ELSE Group3(DigitsOf(val))

Dashes(n) == [i \in 1..n |-> "-"]

(* ---------------------------------------------------------------------- *)
(* Names and literals of the program                                       *)
(* ---------------------------------------------------------------------- *)
facetsFn == <<"f", "a", "c", "e", "t", "s", "(", ")">>

facetAddressesFn ==
  <<"f", "a", "c", "e", "t", "A", "d", "d", "r", "e", "s", "s", "e", "s",
    "(", ")">>

unknownFn == <<"u", "n", "k", "n", "o", "w", "n", "F", "n", "(", ")">>

Recognized == {facetsFn, facetAddressesFn}

SelectorsFacets ==
  <<"S", "e", "l", "e", "c", "t", "o", "r", "s", "/",
    "F", "a", "c", "e", "t", "s">>

ImplA == <<"I", "m", "p", "l", "A">>

ImplB == <<"I", "m", "p", "l", "B">>

Fields == <<"Implementation", "Function", "Facets", "Selectors", "GasUsed">>

Line(kind, cells) == [kind |-> kind, cells |-> cells]

\* The static preamble text assigned to md before the tables.
Preamble == <<Line("preamble", <<>>)>>

\* What BENCHMARK_REPORT.md holds before the run.
PriorContent == <<Line("prior", <<>>)>>

(* ---------------------------------------------------------------------- *)
(* csv.DictReader                                                          *)
(* ---------------------------------------------------------------------- *)
\* dict(zip(fieldnames, cells)): a repeated field name keeps its last cell.
RowDict(header, cells) ==
  [k \in Range(header) |->
     cells[CHOOSE i \in 1..Len(header) :
             /\ header[i] = k
             /\ \A j \in (i + 1)..Len(header) : header[j] # k]]

\* The exception statement k of the loop body raises on this row, if any:
\* row[...] raises KeyError, int(...) raises ValueError.
StepError(row, k) ==
  IF Fields[k] \notin DOMAIN row THEN "KeyError"
  ELSE IF k >= 3 /\ ~ParseInt(row[Fields[k]]).ok THEN "ValueError"
  ELSE "none"

\* The first exception of the loop body on this row, in statement order.
RowError(row) ==
  LET bad == {k \in 1..Len(Fields) : StepError(row, k) # "none"}
  IN IF bad = {} THEN "none" ELSE StepError(row, Min(bad))

(* ---------------------------------------------------------------------- *)
(* The aggregation: data[function][(selectors, facets)][implementation]    *)
(* ---------------------------------------------------------------------- *)
EmptyDict == <<>>

Put(m, k, v) == [x \in (DOMAIN m) \cup {k} |-> IF x = k THEN v ELSE m[x]]

\* d[k] on a defaultdict, without the insertion of the default.
Get(d, k) == IF k \in DOMAIN d THEN d[k] ELSE EmptyDict

\* d[k] on a defaultdict inserts the default for an absent key.
Touch(d, k) == IF k \in DOMAIN d THEN d ELSE Put(d, k, EmptyDict)

\* Mutant of Insert: the function level forgotten, every record goes to the
\* facets() table.
InsertOneTable(d, func, key, impl, gas) ==
  Put(d, facetsFn,
      Put(Get(d, facetsFn), key, Put(Get(Get(d, facetsFn), key), impl, gas)))

\* Mutant of Insert: setdefault, the first record of a key is kept.
InsertKeepFirst(d, func, key, impl, gas) ==
  IF impl \in DOMAIN Get(Get(d, func), key) THEN d
  ELSE Put(d, func, Put(Get(d, func), key, Put(Get(Get(d, func), key), impl, gas)))

\* data[func][(selectors, facets)][impl] = gas
Insert(d, func, key, impl, gas) ==
  Put(d, func, Put(Get(d, func), key, Put(Get(Get(d, func), key), impl, gas)))

\* Mutant of Ingest: the key built as (facets, selectors).
IngestFacetsFirst(d, row) ==
  Insert(d,
         row["Function"],
         <<ParseInt(row["Facets"]).val, ParseInt(row["Selectors"]).val>>,
         row["Implementation"],
         ParseInt(row["GasUsed"]).val)

\* One iteration of the loop body on a row that raises nothing.
Ingest(d, row) ==
  Insert(d,
         row["Function"],
         <<ParseInt(row["Selectors"]).val, ParseInt(row["Facets"]).val>>,
         row["Implementation"],
         ParseInt(row["GasUsed"]).val)

\* The loop over the rows that raise nothing, from the aggregation d.
RECURSIVE IngestRows(_, _, _)
IngestRows(d, header, rows) ==
  IF rows = <<>> THEN d
  ELSE IngestRows(Ingest(d, RowDict(header, Head(rows))), header, Tail(rows))

(* ---------------------------------------------------------------------- *)
(* Rendering                                                               *)
(* ---------------------------------------------------------------------- *)
RECURSIVE SortedText(_)
SortedText(S) ==
  IF S = {} THEN <<>>
  ELSE LET m == CHOOSE x \in S : \A y \in S \ {x} : TextLess(x, y)
       IN <<m>> \o SortedText(S \ {m})

\* Mutant of SortedPairs: the keys ordered by facets, then selectors.
RECURSIVE SortedFacetsFirst(_)
SortedFacetsFirst(S) ==
  IF S = {} THEN <<>>
  ELSE LET m == CHOOSE x \in S :
                  \A y \in S \ {x} : PairLess(<<x[2], x[1]>>, <<y[2], y[1]>>)
       IN <<m>> \o SortedFacetsFirst(S \ {m})

RECURSIVE SortedPairs(_)
SortedPairs(S) ==
  IF S = {} THEN <<>>
  ELSE LET m == CHOOSE x \in S : \A y \in S \ {x} : PairLess(x, y)
       IN <<m>> \o SortedPairs(S \ {m})

\* sorted({impl for func_data in data.values() for pair in ... for impl in pair})
Discover(d) ==
  SortedText(UNION {UNION {DOMAIN d[f][k] : k \in DOMAIN d[f]} : f \in DOMAIN d})

\* Mutant of CellText: "if val:" in place of isinstance(val, int), so that a
\* measurement of 0 is taken for an absent one.
CellTextFalsy(impls, impl) ==
  IF impl \in DOMAIN impls /\ impls[impl] # 0
  THEN FormatThousands(impls[impl]) ELSE <<>>

\* val = impls.get(impl, ""); an int is formatted with f"{val:,}"; str(val)
CellText(impls, impl) ==
  IF impl \in DOMAIN impls THEN FormatThousands(impls[impl]) ELSE <<>>

\* Mutant of DataRow: no cell appended for an implementation without a
\* measurement at the key.
DataRowSkipAbsent(key, impls, impl_names) ==
  Line("row",
       <<IntToText(key[1]) \o <<"/">> \o IntToText(key[2])>>
         \o [i \in 1..Len(SelectSeq(impl_names, LAMBDA n : n \in DOMAIN impls))
               |-> CellText(impls,
                            SelectSeq(impl_names,
                                      LAMBDA n : n \in DOMAIN impls)[i])])

\* The data row of one key: the label and one cell per implementation.
DataRow(key, impls, impl_names) ==
  Line("row",
       <<IntToText(key[1]) \o <<"/">> \o IntToText(key[2])>>
         \o [i \in 1..Len(impl_names) |-> CellText(impls, impl_names[i])])

format_table(func_name, rows, impl_names) ==
  LET keys == SortedPairs(DOMAIN rows)
      hdr  == <<SelectorsFacets>> \o impl_names
  IN <<Line("heading", <<func_name>>),
       Line("header", hdr),
       Line("separator", [i \in 1..Len(hdr) |-> Dashes(Len(hdr[i]))])>>
       \o [i \in 1..Len(keys) |-> DataRow(keys[i], rows[keys[i]], impl_names)]
       \o <<Line("rule", <<>>)>>

\* The whole document the run assembles from an aggregation.
Report(d) ==
  Preamble
    \o format_table(facetsFn, Get(d, facetsFn), Discover(d))
    \o format_table(facetAddressesFn, Get(d, facetAddressesFn), Discover(d))

(* ---------------------------------------------------------------------- *)
(* The input files of the model                                            *)
(* ---------------------------------------------------------------------- *)
Gas0 == <<"0">>

Gas100000 == <<"1", "0", "0", "0", "0", "0">>

Gas120000 == <<"1", "2", "0", "0", "0", "0">>

\* Rows in the column order Implementation, Function, Facets, Selectors,
\* GasUsed: the key (selectors 5, facets 2) of facets() with three
\* measurements, the keys (2, 5) and (5, 10) of facets() with one, and the
\* key (5, 2) of facetAddresses() with two.
GoodRows ==
  {<<impl, facetsFn, <<"2">>, <<"5">>, gas>> :
     impl \in {ImplA, ImplB}, gas \in {Gas0, Gas100000, Gas120000}}
  \cup
  {<<impl, facetsFn, kc[1], kc[2], Gas100000>> :
     impl \in {ImplA, ImplB},
     kc \in {<<<<"5">>, <<"2">>>>, <<<<"1", "0">>, <<"5">>>>}}
  \cup
  {<<impl, facetAddressesFn, <<"2">>, <<"5">>, gas>> :
     impl \in {ImplA, ImplB}, gas \in {Gas0, Gas120000}}

UnknownRows ==
  {<<impl, unknownFn, <<"2">>, <<"5">>, Gas100000>> : impl \in {ImplA, ImplB}}

\* Cells int() accepts although they are not plain decimal numerals.
LenientRows ==
  {<<ImplA, facetsFn, <<" ", "2">>, <<"+", "5">>, <<"1", "_", "0", "0", "0">>>>}

\* Rows with one cell int() rejects.
BadRows ==
  {<<ImplA, facetsFn, <<"x">>, <<"5">>, <<"0">>>>,
   <<ImplB, facetsFn, <<"2">>, <<>>, <<"0">>>>,
   <<ImplA, facetAddressesFn, <<"2">>, <<"5">>, <<"1", ".", "5">>>>,
   <<ImplB, unknownFn, <<"2">>, <<"5">>, <<"x">>>>}

Rows == GoodRows \cup UnknownRows \cup LenientRows \cup BadRows

SeqsUpTo(S, n) == UNION {[1..k -> S] : k \in 0..n}

DropAt(s, k) == SubSeq(s, 1, k - 1) \o SubSeq(s, k + 1, Len(s))

File(header, rows) == [exists |-> TRUE, header |-> header, rows |-> rows]

NoFile == [exists |-> FALSE, header |-> <<>>, rows |-> <<>>]

\* Files with the full header.
FullFiles == {File(Fields, rows) : rows \in SeqsUpTo(Rows, MaxRows)}

\* Files whose header and rows lack one of the five columns.
ShortFiles ==
  {File(DropAt(Fields, k), [i \in 1..n |-> DropAt(r, k)]) :
     k \in 1..Len(Fields), n \in 0..MaxRows,
     r \in {<<ImplA, facetsFn, <<"2">>, <<"5">>, <<"0">>>>}}

Inputs == {NoFile} \cup FullFiles \cup ShortFiles

(* ---------------------------------------------------------------------- *)
(* The run                                                                 *)
(* ---------------------------------------------------------------------- *)
Init ==
  /\ input \in Inputs
  /\ output = PriorContent
  /\ pc = "open"
  /\ idx = 0
  /\ data = EmptyDict
  /\ implementations = <<>>
  /\ md = <<>>
  /\ err = "none"

CurrentRow == RowDict(input.header, input.rows[idx])

\* open(input_file) succeeds; the reader stands before the first data row.
OpenInput ==
  /\ pc = "open"
  /\ input.exists
  /\ pc' = "read"
  /\ idx' = 1
  /\ UNCHANGED <<input, output, data, implementations, md, err>>

\* open(input_file) raises.
OpenFails ==
  /\ pc = "open"
  /\ ~input.exists
  /\ pc' = "failed"
  /\ err' = "FileNotFoundError"
  /\ UNCHANGED <<input, output, idx, data, implementations, md>>

\* One iteration of the loop body that raises nothing.
IngestRow ==
  /\ pc = "read"
  /\ idx <= Len(input.rows)
  /\ RowError(CurrentRow) = "none"
  /\ data' = Ingest(data, CurrentRow)
  /\ idx' = idx + 1
  /\ UNCHANGED <<pc, input, output, implementations, md, err>>

\* Mutant of IngestRaises: the row that raises is skipped and the loop goes on.
IngestSkips ==
  /\ pc = "read"
  /\ idx <= Len(input.rows)
  /\ RowError(CurrentRow) # "none"
  /\ idx' = idx + 1
  /\ UNCHANGED <<pc, input, output, data, implementations, md, err>>

\* One iteration of the loop body that raises: the exception ends the run.
IngestRaises ==
  /\ pc = "read"
  /\ idx <= Len(input.rows)
  /\ RowError(CurrentRow) # "none"
  /\ pc' = "failed"
  /\ err' = RowError(CurrentRow)
  /\ UNCHANGED <<input, output, idx, data, implementations, md>>

\* The reader is exhausted: column discovery and the preamble.
FinishIngest ==
  /\ pc = "read"
  /\ idx > Len(input.rows)
  /\ implementations' = Discover(data)
  /\ md' = Preamble
  /\ pc' = "render_facets"
  /\ UNCHANGED <<input, output, idx, data, err>>

\* md += format_table("facets()", data["facets()"], implementations)
RenderFacets ==
  /\ pc = "render_facets"
  /\ md' = md \o format_table(facetsFn, Get(data, facetsFn), implementations)
  /\ data' = Touch(data, facetsFn)
  /\ pc' = "render_facetAddresses"
  /\ UNCHANGED <<input, output, idx, implementations, err>>

\* Mutant of RenderFacetAddresses: the rows of facets() passed again.
RenderFacetAddressesFromFacets ==
  /\ pc = "render_facetAddresses"
  /\ md' = md \o format_table(facetAddressesFn, Get(data, facetsFn),
                              implementations)
  /\ data' = Touch(data, facetsFn)
  /\ pc' = "write"
  /\ UNCHANGED <<input, output, idx, implementations, err>>

\* md += format_table("facetAddresses()", data["facetAddresses()"], ...)
RenderFacetAddresses ==
  /\ pc = "render_facetAddresses"
  /\ md' = md \o format_table(facetAddressesFn, Get(data, facetAddressesFn),
                              implementations)
  /\ data' = Touch(data, facetAddressesFn)
  /\ pc' = "write"
  /\ UNCHANGED <<input, output, idx, implementations, err>>

\* open(output_file, "w"); f.write(md); print(...)
WriteOutput ==
  /\ pc = "write"
  /\ output' = md
  /\ pc' = "done"
  /\ UNCHANGED <<input, idx, data, implementations, md, err>>

Next ==
  \/ OpenInput
  \/ OpenFails
  \/ IngestRow
  \/ IngestRaises
  \/ FinishIngest
  \/ RenderFacets
  \/ RenderFacetAddresses
  \/ WriteOutput

Spec == Init /\ [][Next]_vars

(* ---------------------------------------------------------------------- *)
(* Reading the input file and the rendered document                        *)
(* ---------------------------------------------------------------------- *)
RowIdx == 1..Len(input.rows)

InRow(i) == RowDict(input.header, input.rows[i])

AllRowsFine == \A i \in RowIdx : RowError(InRow(i)) = "none"

\* The cell of row i under a field name of the header.
CellOf(i, name) ==
  input.rows[i][CHOOSE k \in 1..Len(input.header) :
                  /\ input.header[k] = name
                  /\ \A j \in (k + 1)..Len(input.header) : input.header[j] # name]

\* The record of a row that raises nothing.
RecImpl(i) == CellOf(i, "Implementation")

RecFunc(i) == CellOf(i, "Function")

RecKey(i) ==
  <<ParseInt(CellOf(i, "Selectors")).val, ParseInt(CellOf(i, "Facets")).val>>

RecGas(i) == ParseInt(CellOf(i, "GasUsed")).val

SameKey(i, j) ==
  /\ RecFunc(i) = RecFunc(j)
  /\ RecImpl(i) = RecImpl(j)
  /\ RecKey(i) = RecKey(j)

\* The last row in file order with the key of row i.
LastOf(i) ==
  LET same == {j \in RowIdx : SameKey(i, j)}
  IN CHOOSE j \in same : \A k \in same : k <= j

InputKeys(f) == {RecKey(i) : i \in {j \in RowIdx : RecFunc(j) = f}}

InputImpls == {RecImpl(i) : i \in RowIdx}

Measured(f, key, impl) ==
  \E i \in RowIdx : RecFunc(i) = f /\ RecKey(i) = key /\ RecImpl(i) = impl

Label(key) == IntToText(key[1]) \o <<"/">> \o IntToText(key[2])

WithoutCommas(text) == SelectSeq(text, LAMBDA c : c # ",")

\* text is the decimal numeral of n >= 0 with a comma before every group of
\* three digits counted from the right, and nowhere else.
IsThousands(text, n) ==
  /\ WithoutCommas(text) = IntToText(n)
  /\ \A k \in 1..Len(text) : (text[k] = ",") <=> ((Len(text) - k + 1) % 4 = 0)

\* The lines of the table of function f in a document: from its heading to
\* the first horizontal rule after it.
HeadingsOf(doc, f) ==
  {i \in 1..Len(doc) : doc[i].kind = "heading" /\ doc[i].cells = <<f>>}

TableLines(doc, f) ==
  LET h == Min(HeadingsOf(doc, f))
      e == Min({j \in h..Len(doc) : doc[j].kind = "rule"})
  IN SubSeq(doc, h, e)

HasTable(doc, f) ==
  /\ Cardinality(HeadingsOf(doc, f)) = 1
  /\ \E j \in Min(HeadingsOf(doc, f))..Len(doc) : doc[j].kind = "rule"

\* heading, header row, separator row, data rows, rule.
WellFormed(t) ==
  /\ Len(t) >= 4
  /\ t[1].kind = "heading"
  /\ t[2].kind = "header"
  /\ Len(t[2].cells) >= 1
  /\ t[2].cells[1] = SelectorsFacets
  /\ t[3].kind = "separator"
  /\ Len(t[3].cells) = Len(t[2].cells)
  /\ \A j \in 1..Len(t[2].cells) : t[3].cells[j] = Dashes(Len(t[2].cells[j]))
  /\ \A r \in 4..(Len(t) - 1) : t[r].kind = "row" /\ Len(t[r].cells) >= 1
  /\ t[Len(t)].kind = "rule"

Columns(t) == Tail(t[2].cells)

DataRows(t) == [r \in 1..(Len(t) - 4) |-> t[r + 3].cells]

ColumnOf(t, impl) == CHOOSE j \in 1..Len(Columns(t)) : Columns(t)[j] = impl

\* The data rows of t with the label of key.
RowsLabelled(t, key) ==
  {r \in 1..Len(DataRows(t)) : DataRows(t)[r][1] = Label(key)}

\* The cell of the data row of key under the column of impl, in a table
\* that has exactly one such row and such a column.
CellAt(t, key, impl) ==
  DataRows(t)[CHOOSE r \in RowsLabelled(t, key) : TRUE][ColumnOf(t, impl) + 1]

HasCell(t, key, impl) ==
  /\ Cardinality(RowsLabelled(t, key)) = 1
  /\ impl \in Range(Columns(t))
  /\ \A r \in RowsLabelled(t, key) : Len(DataRows(t)[r]) = Len(t[2].cells)

\* The integer pair a row label "<selectors>/<facets>" stands for.
LabelKey(label) ==
  LET p == Min({k \in 1..Len(label) : label[k] = "/"})
  IN <<ParseInt(SubSeq(label, 1, p - 1)).val,
       ParseInt(SubSeq(label, p + 1, Len(label))).val>>

IsLabel(label) ==
  /\ \E k \in 1..Len(label) : label[k] = "/"
  /\ LET p == Min({k \in 1..Len(label) : label[k] = "/"})
     IN /\ ParseInt(SubSeq(label, 1, p - 1)).ok
        /\ ParseInt(SubSeq(label, p + 1, Len(label))).ok

Written == pc = "done"

BothTables(doc) ==
  \A f \in Recognized : HasTable(doc, f) /\ WellFormed(TableLines(doc, f))

(* ---------------------------------------------------------------------- *)
(* C8: the two-row example                                                 *)
(* ---------------------------------------------------------------------- *)
ExampleFile ==
  File(Fields,
       <<<<ImplA, facetsFn, <<"2">>, <<"5">>, Gas100000>>,
         <<ImplB, facetsFn, <<"2">>, <<"5">>, Gas120000>>>>)

ExampleTableWith(label) ==
  /\ HasTable(output, facetsFn)
  /\ WellFormed(TableLines(output, facetsFn))
  /\ Columns(TableLines(output, facetsFn)) = <<ImplA, ImplB>>
  /\ DataRows(TableLines(output, facetsFn)) =
       <<<<label,
           <<"1", "0", "0", ",", "0", "0", "0">>,
           <<"1", "2", "0", ",", "0", "0", "0">>>>>>

\* C8 as stated: for the input of exactly the two rows
\* (ImplA, facets(), 2, 5, 100000) and (ImplB, facets(), 2, 5, 120000), given
\* in the header order Implementation, Function, Facets, Selectors, GasUsed,
\* the facets() table has the columns ImplA, ImplB and exactly one data row,
\* whose cells are 2/5, 100,000 and 120,000.
C8_Original ==
  (Written /\ input = ExampleFile) => ExampleTableWith(<<"2", "/", "5">>)

\* C8 amended: for that input the facets() table has the columns ImplA, ImplB
\* and exactly one data row, whose cells are 5/2, 100,000 and 120,000: the
\* label is "<selectors>/<facets>", and the row has Facets = 2, Selectors = 5.
C8_ExampleRow ==
  (Written /\ input = ExampleFile) => ExampleTableWith(<<"5", "/", "2">>)

C8_Witness == Written /\ input = ExampleFile /\ output # PriorContent

(* ---------------------------------------------------------------------- *)
(* C9: one data row per recorded (Selectors, Facets) pair                  *)
(* ---------------------------------------------------------------------- *)
\* C9: the table of a recognized function has exactly one data row per
\* distinct (Selectors, Facets) integer pair recorded for that function and
\* no other data row; with no pair recorded it still has its heading, header
\* row and separator row and zero data rows; and a run whose rows all parse
\* does not fail, whatever the functions the rows name.
C9_OneRowPerKey ==
  /\ (input.exists /\ AllRowsFine) => pc # "failed"
  /\ Written =>
       \A f \in Recognized :
         /\ HasTable(output, f)
         /\ LET t == TableLines(output, f)
            IN /\ WellFormed(t)
               /\ t[1].cells = <<f>>
               /\ Len(DataRows(t)) = Cardinality(InputKeys(f))
               /\ {DataRows(t)[r][1] : r \in 1..Len(DataRows(t))}
                    = {Label(k) : k \in InputKeys(f)}

\* A written report where facetAddresses() has no recorded pair and the two
\* rows of facets() give one pair written in two ways (" 2", "+5" and "2", "5").
C9_Witness ==
  /\ Written
  /\ InputKeys(facetAddressesFn) = {}
  /\ Cardinality(InputKeys(facetsFn)) = 1
  /\ Len(input.rows) = 2
  /\ \E i \in RowIdx : input.rows[i] \in LenientRows
  /\ Len(DataRows(TableLines(output, facetAddressesFn))) = 0
  /\ Len(DataRows(TableLines(output, facetsFn))) = 1

(* ---------------------------------------------------------------------- *)
(* C6: order of rows and columns                                           *)
(* ---------------------------------------------------------------------- *)
\* C6: in every rendered table the data rows are in strictly ascending order
\* of the integer pair (selectors, facets), compared first by selectors and
\* then by facets, the implementation columns are in strictly ascending
\* lexicographic order of name, and both tables have the same column list.
C6_Ordering ==
  Written =>
    /\ BothTables(output)
    /\ \A f \in Recognized :
         LET t == TableLines(output, f)
         IN /\ \A r \in 1..Len(DataRows(t)) : IsLabel(DataRows(t)[r][1])
            /\ \A r \in 1..(Len(DataRows(t)) - 1) :
                 LET a == LabelKey(DataRows(t)[r][1])
                     b == LabelKey(DataRows(t)[r + 1][1])
                 IN a[1] < b[1] \/ (a[1] = b[1] /\ a[2] < b[2])
            /\ \A c \in 1..(Len(Columns(t)) - 1) :
                 TextLess(Columns(t)[c], Columns(t)[c + 1])
    /\ Columns(TableLines(output, facetsFn))
         = Columns(TableLines(output, facetAddressesFn))

\* A written report whose input names ImplB before ImplA and gives the keys
\* of facets() out of order, two of them with the same selectors.
C6_Witness ==
  /\ Written
  /\ Len(input.rows) >= 2
  /\ RecImpl(1) = ImplB
  /\ RecImpl(2) = ImplA
  /\ RecFunc(1) = facetsFn
  /\ RecFunc(2) = facetsFn
  /\ RecKey(1) = <<5, 10>>
  /\ RecKey(2) = <<5, 2>>
  /\ Len(DataRows(TableLines(output, facetsFn))) = 2
  /\ Len(Columns(TableLines(output, facetsFn))) = 2

(* ---------------------------------------------------------------------- *)
(* C4: every measurement of a recognized function is rendered              *)
(* ---------------------------------------------------------------------- *)
\* C4 as stated: for every input row whose function is facets() or
\* facetAddresses(), the row labelled "<selectors>/<facets>" of that
\* function's table has, in the column of the row's implementation, the
\* row's measurement formatted with thousands separators.
C4_Original ==
  Written =>
    \A i \in RowIdx :
      RecFunc(i) \in Recognized =>
        LET t == TableLines(output, RecFunc(i))
        IN /\ HasCell(t, RecKey(i), RecImpl(i))
           /\ IsThousands(CellAt(t, RecKey(i), RecImpl(i)), RecGas(i))

\* C4 amended: for every input row whose function is facets() or
\* facetAddresses(), the row labelled "<selectors>/<facets>" of that
\* function's table has, in the column of the row's implementation, the
\* measurement of the last input row with the same (function, selectors,
\* facets, implementation), formatted with thousands separators.
C4_EveryTupleRendered ==
  Written =>
    \A i \in RowIdx :
      RecFunc(i) \in Recognized =>
        LET t == TableLines(output, RecFunc(i))
        IN /\ HasTable(output, RecFunc(i))
           /\ WellFormed(t)
           /\ HasCell(t, RecKey(i), RecImpl(i))
           /\ IsThousands(CellAt(t, RecKey(i), RecImpl(i)),
                          RecGas(LastOf(i)))

\* A written report of two rows with different keys, one per table, whose
\* measurements need a separator.
C4_Witness ==
  /\ Written
  /\ Len(input.rows) = 2
  /\ RecFunc(1) = facetAddressesFn
  /\ RecFunc(2) = facetsFn
  /\ RecGas(1) = 120000
  /\ RecGas(2) = 100000
  /\ RecImpl(1) # RecImpl(2)
  /\ CellAt(TableLines(output, facetAddressesFn), RecKey(1), RecImpl(1))
       = <<"1", "2", "0", ",", "0", "0", "0">>

(* ---------------------------------------------------------------------- *)
(* C5: the last of several rows with one key wins                          *)
(* ---------------------------------------------------------------------- *)
\* The rows of the input that are the last in file order with their key.
LastRows ==
  LET keep == {i \in RowIdx : LastOf(i) = i}
      F[n \in 0..Len(input.rows)] ==
        IF n = 0 THEN <<>>
        ELSE IF n \in keep THEN Append(F[n - 1], input.rows[n]) ELSE F[n - 1]
  IN F[Len(input.rows)]

\* C5: when several rows share the (Function, Selectors, Facets,
\* Implementation) key, ingest does not fail on them, the aggregation after
\* the loop is the one built from the last row of each key alone, and the
\* rendered cell of the key is the GasUsed of the last of its rows.
C5_LastRowWins ==
  /\ (pc = "failed" /\ input.exists) => RowError(InRow(idx)) # "none"
  /\ pc = "render_facets" =>
       /\ data = IngestRows(EmptyDict, input.header, LastRows)
       /\ \A i \in RowIdx :
            /\ RecFunc(i) \in DOMAIN data
            /\ RecKey(i) \in DOMAIN data[RecFunc(i)]
            /\ RecImpl(i) \in DOMAIN data[RecFunc(i)][RecKey(i)]
            /\ data[RecFunc(i)][RecKey(i)][RecImpl(i)] = RecGas(LastOf(i))
  /\ Written =>
       \A i \in RowIdx : \A j \in RowIdx :
         (i < j /\ SameKey(i, j) /\ LastOf(i) = j /\ RecFunc(i) \in Recognized)
           => LET t == TableLines(output, RecFunc(i))
              IN /\ HasCell(t, RecKey(j), RecImpl(j))
                 /\ IsThousands(CellAt(t, RecKey(j), RecImpl(j)), RecGas(j))
                 /\ (RecGas(i) # RecGas(j) =>
                       ~IsThousands(CellAt(t, RecKey(j), RecImpl(j)),
                                    RecGas(i)))

\* A written report of two rows with one key and different measurements.
C5_Witness ==
  /\ Written
  /\ Len(input.rows) = 2
  /\ SameKey(1, 2)
  /\ RecFunc(1) = facetsFn
  /\ RecGas(1) = 100000
  /\ RecGas(2) = 0
  /\ Len(DataRows(TableLines(output, facetsFn))) = 1

(* ---------------------------------------------------------------------- *)
(* C7: one cell per implementation, empty where nothing was measured       *)
(* ---------------------------------------------------------------------- *)
\* C7: for every recognized function and every (selectors, facets) key
\* recorded for it, the data row of that key has exactly one cell per
\* implementation of the column set discovered over all rows; the cell of an
\* implementation with no measurement at that key is the empty text, and
\* neither the row nor the column is dropped.
C7_BlankCells ==
  Written =>
    \A f \in Recognized :
      /\ HasTable(output, f)
      /\ WellFormed(TableLines(output, f))
      /\ Range(Columns(TableLines(output, f))) = InputImpls
      /\ Len(Columns(TableLines(output, f))) = Cardinality(InputImpls)
      /\ \A key \in InputKeys(f) :
           LET t == TableLines(output, f)
           IN /\ Cardinality(RowsLabelled(t, key)) = 1
              /\ \A r \in RowsLabelled(t, key) :
                   Len(DataRows(t)[r]) = 1 + Cardinality(InputImpls)
              /\ \A impl \in InputImpls :
                   ~Measured(f, key, impl) => CellAt(t, key, impl) = <<>>

\* A written report where ImplA has a measurement of facets() at a key and
\* ImplB has none there: its cell in that row is empty.
C7_Witness ==
  /\ Written
  /\ InputImpls = {ImplA, ImplB}
  /\ \E key \in InputKeys(facetsFn) :
       /\ Measured(facetsFn, key, ImplA)
       /\ ~Measured(facetsFn, key, ImplB)
       /\ CellAt(TableLines(output, facetsFn), key, ImplB) = <<>>
       /\ CellAt(TableLines(output, facetsFn), key, ImplA) # <<>>

(* ---------------------------------------------------------------------- *)
(* C10: a measurement of 0 is not an empty cell                            *)
(* ---------------------------------------------------------------------- *)
\* C10: in every rendered table a cell is empty if and only if no record
\* exists for its (function, selectors, facets, implementation) key, and a
\* recorded measurement of 0 is rendered as the text "0".
C10_ZeroIsNotBlank ==
  Written =>
    /\ BothTables(output)
    /\ \A f \in Recognized :
         LET t == TableLines(output, f)
         IN \A r \in 1..Len(DataRows(t)) :
              /\ IsLabel(DataRows(t)[r][1])
              /\ Len(DataRows(t)[r]) = Len(Columns(t)) + 1
              /\ \A c \in 1..Len(Columns(t)) :
                   (DataRows(t)[r][c + 1] = <<>>)
                     <=> ~Measured(f, LabelKey(DataRows(t)[r][1]), Columns(t)[c])
    /\ \A i \in RowIdx :
         (RecFunc(i) \in Recognized /\ RecGas(LastOf(i)) = 0)
           => CellAt(TableLines(output, RecFunc(i)), RecKey(i), RecImpl(i))
                = <<"0">>

\* A written report with one row of the facets() table holding a measurement
\* of 0 for ImplA and no measurement for ImplB.
C10_Witness ==
  /\ Written
  /\ InputImpls = {ImplA, ImplB}
  /\ \E key \in InputKeys(facetsFn) :
       /\ Measured(facetsFn, key, ImplA)
       /\ ~Measured(facetsFn, key, ImplB)
       /\ CellAt(TableLines(output, facetsFn), key, ImplA) = <<"0">>
       /\ CellAt(TableLines(output, facetsFn), key, ImplB) = <<>>

(* ---------------------------------------------------------------------- *)
(* C3: the output is written last, and not at all by a run that aborts     *)
(* ---------------------------------------------------------------------- *)
\* The rows on which int() raises.
ParseFailures == {i \in RowIdx : RowError(InRow(i)) = "ValueError"}

\* C3: the output is written only after every row has been read and parsed
\* and both tables have been rendered; in a run where opening the input fails
\* or some row's Facets, Selectors or GasUsed fails to parse, the run aborts
\* at the first such row with the rows before it ingested and no later row,
\* the write step is never reached and the output keeps its prior content.
C3_WriteIsLast ==
  /\ output # PriorContent =>
       /\ pc = "done"
       /\ idx = Len(input.rows) + 1
       /\ AllRowsFine
       /\ output = md
       /\ BothTables(output)
  /\ pc = "write" => (AllRowsFine /\ idx = Len(input.rows) + 1 /\ BothTables(md))
  /\ ~input.exists => (pc \in {"open", "failed"} /\ output = PriorContent)
  /\ (input.exists /\ ParseFailures # {}) =>
       /\ pc \in {"open", "read", "failed"}
       /\ output = PriorContent
       /\ idx <= Min(ParseFailures)
       /\ pc = "read" =>
            data = IngestRows(EmptyDict, input.header,
                              SubSeq(input.rows, 1, idx - 1))
       /\ pc = "failed" =>
            /\ idx = Min(ParseFailures)
            /\ err = "ValueError"
            /\ data = IngestRows(EmptyDict, input.header,
                                 SubSeq(input.rows, 1, idx - 1))

\* A run that aborted on its first row, a row that does not parse, with a
\* well-formed row after it that was never ingested.
C3_Witness ==
  /\ pc = "failed"
  /\ err = "ValueError"
  /\ idx = 1
  /\ Len(input.rows) = 2
  /\ RowError(InRow(2)) = "none"
  /\ data = EmptyDict
  /\ output = PriorContent

(* ---------------------------------------------------------------------- *)
(* C2: a header without an expected field                                  *)
(* ---------------------------------------------------------------------- *)
HeaderLacksField == \E k \in 1..Len(Fields) : Fields[k] \notin Range(input.header)

\* C2 as stated: for every input file with any number of data rows (zero
\* included), if the header lacks one of Implementation, Function, Facets,
\* Selectors, GasUsed, the run ends in a fatal error and no report is written.
C2_Original ==
  (input.exists /\ HeaderLacksField) => (pc # "done" /\ output = PriorContent)

(* ---------------------------------------------------------------------- *)
(* C1: rows of other functions                                             *)
(* ---------------------------------------------------------------------- *)
\* The rows that name neither facets() nor facetAddresses().
OtherRows == {i \in RowIdx : RecFunc(i) \notin Recognized}

\* The document rendered from the input with row i removed.
ReportWithout(i) ==
  Report(IngestRows(EmptyDict, input.header, DropAt(input.rows, i)))

\* The implementations named by the rows other than row i.
ImplsWithout(i) == {RecImpl(j) : j \in RowIdx \ {i}}

\* C1 as stated: a row whose Function is neither facets() nor
\* facetAddresses() contributes nothing to either rendered table: both tables
\* (heading, header row with its columns, separator row, data rows and cells)
\* are the ones rendered from the input with that row removed.
C1_Original ==
  Written =>
    \A i \in OtherRows :
      \A f \in Recognized :
        TableLines(output, f) = TableLines(ReportWithout(i), f)

\* C1 amended: in a run whose rows all parse, a row whose Function is neither
\* facets() nor facetAddresses() contributes no data row and no measurement:
\* each table has the heading, the data-row labels and, under every
\* implementation named by another row, the cells of the table rendered from
\* the input with that row removed. The row's Implementation is still a
\* column of both tables: if another row names it the tables are the same as
\* without the row, otherwise both gain that one column, empty in every row.
C1_OtherFunctionRows ==
  Written =>
    \A i \in OtherRows :
      \A f \in Recognized :
        /\ HasTable(output, f)
        /\ WellFormed(TableLines(output, f))
        /\ LET t == TableLines(output, f)
               u == TableLines(ReportWithout(i), f)
           IN /\ t[1] = u[1]
              /\ Len(DataRows(t)) = Len(DataRows(u))
              /\ \A r \in 1..Len(DataRows(t)) :
                   /\ DataRows(t)[r][1] = DataRows(u)[r][1]
                   /\ Len(DataRows(t)[r]) = Len(Columns(t)) + 1
              /\ Range(Columns(u)) = ImplsWithout(i)
              /\ Range(Columns(t)) = ImplsWithout(i) \cup {RecImpl(i)}
              /\ Len(Columns(t)) = Cardinality(Range(Columns(t)))
              /\ \A r \in 1..Len(DataRows(t)) :
                   /\ \A c \in ImplsWithout(i) :
                        DataRows(t)[r][ColumnOf(t, c) + 1]
                          = DataRows(u)[r][ColumnOf(u, c) + 1]
                   /\ RecImpl(i) \notin ImplsWithout(i) =>
                        DataRows(t)[r][ColumnOf(t, RecImpl(i)) + 1] = <<>>
              /\ RecImpl(i) \in ImplsWithout(i) => t = u

\* A written report of a facets() row of ImplA and an unknownFn() row of
\* ImplB: the facets() table has one data row and the columns ImplA, ImplB.
C1_Witness ==
  /\ Written
  /\ Len(input.rows) = 2
  /\ RecFunc(1) = facetsFn
  /\ RecImpl(1) = ImplA
  /\ RecFunc(2) = unknownFn
  /\ RecImpl(2) = ImplB
  /\ Columns(TableLines(output, facetsFn)) = <<ImplA, ImplB>>
  /\ Len(DataRows(TableLines(output, facetsFn))) = 1
  /\ DataRows(TableLines(output, facetsFn))[1][3] = <<>>

====
